---- MODULE Spec2Model ----
(***************************************************************************)
(* Model of torch_tvm/operators.cpp: the schedule registration gate        *)
(* (getTVMScheduleMap, RegisterTVMOperatorSchedule, registerSchedule), the *)
(* operator translation registry (getTVMOperatorMap, RegisterTVMOperator,  *)
(* isSupported, getOperator), the constant / none-sentinel helpers and the *)
(* per-operator translation rules of the static table `reg`.               *)
(***************************************************************************)
EXTENDS Integers, Sequences, FiniteSets, TLC

VARIABLES
  \* ---- schedule gate (getTVMScheduleMap and the relay operator table)
  schedMap,          \* name -> stored TVMScheduleFunctor, or Absent
  relayRegister,     \* Registry::Get("relay.op._Register") is non-null
  installed,         \* name -> number of (*reg)(name, "FTVMSchedule", ...) calls
  ctorCalls,         \* name -> invocations of a registered (non no-op) functor
  ensured,           \* name -> registerSchedule calls that reached sched_f()
  installedSinceReg, \* name -> installs since the name was last registered
  gateOutcome,       \* outcome of the last registerSchedule call
  nCalls,            \* registerSchedule calls made so far
  nRegs,             \* RegisterTVMOperatorSchedule constructions so far
  \* ---- two threads inside registerSchedule
  pc, tname, sched_f, sched, overlap, tcalls,
  raced,             \* thread -> its access of the slot overlapped a store
  \* ---- operator registry (getTVMOperatorMap, wrapper_graphs, torch ops)
  opMap,             \* symbol -> registered rule, or Absent
  wrapperGraphs,     \* size of the list wrapper_graphs
  torchOps,          \* operators registered with the framework, in order
  everRegistered,    \* symbols some registration named
  lastRegistered,    \* symbol -> rule of the latest registration naming it
  overwritten,       \* symbols registered again with a different rule
  nOpRegs,           \* RegisterTVMOperator constructions so far
  \* ---- the last call made and what it returned
  lastCall, lastNode, lastInputs, result, supported, noneArg, noneResult,
  chain, prevNode, prevInputs

gateVars == <<schedMap, relayRegister, installed, ctorCalls, ensured,
              installedSinceReg, gateOutcome, nCalls, nRegs>>
concVars == <<pc, tname, sched_f, sched, overlap, tcalls, raced>>
regVars == <<opMap, wrapperGraphs, torchOps, everRegistered, lastRegistered,
             overwritten, nOpRegs>>
callVars == <<lastCall, lastNode, lastInputs, result, supported, noneArg,
              noneResult, chain, prevNode, prevInputs>>
vars == <<gateVars, concVars, regVars, callVars>>

----------------------------------------------------------------------------
(* Bounds of the model *)
MaxCalls == 4
MaxRegs == 2
MaxBatch == 2
MaxThreadCalls == 2
MaxOpRegs == 2
MaxOpBatch == 2
MaxChain == 2

\* a key no map entry exists for
Absent == "absent"

----------------------------------------------------------------------------
(* Relay expressions.  A constant carries the eight bytes found at its     *)
(* data pointer, in memory order (little endian): the first Width(dtype)   *)
(* of them are the stored scalar, the rest is whatever the allocation      *)
(* holds behind it (NDArray::Empty does not clear memory).                 *)

NullExpr == [kind |-> "null"]
Var(name, typed, shape) ==
  [kind |-> "var", name |-> name, typed |-> typed, shape |-> shape]
Const(scalar, dtype, data) ==
  [kind |-> "const", scalar |-> scalar, dtype |-> dtype, data |-> data]
TupleExpr(fields) == [kind |-> "tuple", fields |-> fields]
Call(op, args, attrs) ==
  [kind |-> "call", op |-> op, args |-> args, attrs |-> attrs]
TupleGetItem(tuple, index) ==
  [kind |-> "tuple_get_item", tuple |-> tuple, index |-> index]
\* tvm::Attrs(): a call without attributes
NoAttrs == [empty |-> TRUE]

\* uint64_t getNoneSentinel() { return 0xe4fa3adecabcf036; } in memory order
getNoneSentinel == <<54, 240, 188, 202, 222, 58, 250, 228>>

\* the four bytes of a 32-bit two's complement integer, low byte first
Int32Bytes(v) ==
  <<v % 256, (v \div 256) % 256, (v \div 65536) % 256,
    (v \div 16777216) % 256>>

\* static_cast<int*>(c->data->data)[0]
ReadInt(data) ==
  data[1] + 256 * data[2] + 65536 * data[3]
    + 16777216 * (IF data[4] >= 128 THEN data[4] - 256 ELSE data[4])

\* static_cast<bool*>(c->data->data)[0]
ReadBool(data) == data[1] # 0

\* static_cast<float*>(c->data->data)[0], kept as its four bytes
ReadFloat(data) == SubSeq(data, 1, 4)

\* magnitude of a float's bit pattern (sign bit cleared)
FloatMagnitude(f) ==
  f[1] + 256 * f[2] + 65536 * f[3] + 16777216 * (f[4] % 128)
FloatNegative(f) == f[4] >= 128
FloatIsNaN(f) == FloatMagnitude(f) > 2139095040
\* d < 1e-7 for a float d: 0x33D6BF95 is the smallest float not below 1e-7
FloatLt1em7(f) ==
  /\ ~FloatIsNaN(f)
  /\ FloatNegative(f) \/ FloatMagnitude(f) < 869711765
\* d > -1e-7
FloatGtMinus1em7(f) ==
  /\ ~FloatIsNaN(f)
  /\ ~FloatNegative(f) \/ FloatMagnitude(f) < 869711765

\* bool isConstant(tvm::relay::Expr e)
isConstant(e) == e.kind = "const"

\* the two assertions of relayToConstant<T>
ConstOk(e) == isConstant(e) /\ e.scalar

\* bool relayIsNone(tvm::relay::Expr e)
relayIsNone_NoScalarCheck(e) ==
  isConstant(e) /\ e.data = getNoneSentinel
relayIsNone(e) ==
  IF ~isConstant(e) THEN FALSE
  ELSE IF ~e.scalar THEN FALSE
  ELSE e.data = getNoneSentinel

\* relayToArray<T>: every field read with relayToConstant<int>, in order
ArrayOk(e) ==
  /\ e.kind = "tuple"
  /\ \A i \in 1..Len(e.fields) : ConstOk(e.fields[i])
relayToArray(e) == [i \in 1..Len(e.fields) |-> ReadInt(e.fields[i].data)]

\* how relayToConstant<T>(e) ends
ConstStatus(e) == IF ConstOk(e) THEN "ok" ELSE "internal_assert"
\* how relayToArray<T>(e) ends: e.as<TupleNode>() is null for a non-tuple
ArrayStatus(e) ==
  IF e.kind # "tuple" THEN "crash"
  ELSE IF ArrayOk(e) THEN "ok" ELSE "internal_assert"
\* the first failure among steps taken in order
FirstFailure(sts) ==
  IF \A i \in 1..Len(sts) : sts[i] = "ok" THEN "ok"
  ELSE sts[CHOOSE i \in 1..Len(sts) :
             sts[i] # "ok" /\ \A j \in 1..(i - 1) : sts[j] = "ok"]

\* what a rule hands back: the expression, or how it failed
\*   "internal_assert": TORCH_INTERNAL_ASSERT failed
\*   "check_failed":    TORCH_CHECK failed
\*   "crash":           a null pointer was dereferenced
Ok(expr, warned) == [status |-> "ok", expr |-> expr, warned |-> warned]
Fail(status) == [status |-> status, expr |-> NullExpr, warned |-> FALSE]

----------------------------------------------------------------------------
(* The translation rules of the static table `reg` *)

\* aten::add and aten::add_
AddRule(node, inputs) ==
  IF Len(inputs) # 3 THEN Fail("internal_assert")
  ELSE IF ~isConstant(inputs[3]) THEN Fail("crash")
  ELSE IF ~(inputs[3].scalar /\ ReadInt(inputs[3].data) = 1)
  THEN Fail("internal_assert")
  ELSE Ok(Call("add", <<inputs[1], inputs[2]>>, NoAttrs), FALSE)

\* auto bias_is_none = inputs[2].as<ConstantNode>(); if (!bias_is_none) ...
ConvBiasPresent_NoneSentinel(bias) == ~relayIsNone(bias)
ConvBiasPresent(bias) == ~isConstant(bias)

\* bias_add_attrs->axis = 1
BiasAddAxis == 1

BiasAdd(out, bias) ==
  Call("nn.bias_add", <<out, bias>>, [axis |-> BiasAddAxis])

\* aten::_convolution
ConvRule(node, inputs) ==
  LET st == FirstFailure(<<
        ConstStatus(inputs[7]),
        ConstStatus(inputs[9]),
        IF inputs[2].kind = "var" /\ ~inputs[2].typed
        THEN "internal_assert" ELSE "ok",
        ArrayStatus(inputs[4]), ArrayStatus(inputs[5]),
        ArrayStatus(inputs[6])>>)
  IN
  IF st # "ok" THEN Fail(st)
  ELSE
    LET op == IF ReadBool(inputs[7].data) THEN "nn.conv2d_transpose"
              ELSE "nn.conv2d"
        attrs == [groups |-> ReadInt(inputs[9].data),
                  data_layout |-> "NCHW",
                  kernel_layout |-> "OIHW",
                  has_kernel_size |-> inputs[2].kind = "var",
                  kernel_size |->
                    IF inputs[2].kind = "var"
                    THEN <<inputs[2].shape[3], inputs[2].shape[4]>>
                    ELSE <<>>,
                  strides |-> relayToArray(inputs[4]),
                  padding |-> relayToArray(inputs[5]),
                  dilation |-> relayToArray(inputs[6])]
        out == Call(op, <<inputs[1], inputs[2]>>, attrs)
    IN IF ConvBiasPresent(inputs[3]) THEN Ok(BiasAdd(out, inputs[3]), FALSE)
       ELSE Ok(out, FALSE)

\* TORCH_CHECK(relayToConstant<bool>(inputs[5]) == false, "batch_norm is in
\* training mode"): the failure class of the check
BatchNormTrainingFailure_Assert == "internal_assert"
BatchNormTrainingFailure == "check_failed"

\* reinterpret_cast<float*>(x->data)[0] = 1337e10, as a float32
PlaceholderFloat == <<34, 143, 66, 85>>

\* aten::batch_norm; mem is what NDArray::Empty left behind the float
BatchNormRule(node, inputs, mem) ==
  IF Len(inputs) # 9 THEN Fail("check_failed")
  ELSE IF ~ConstOk(inputs[6]) THEN Fail("internal_assert")
  ELSE IF ReadBool(inputs[6].data) THEN Fail(BatchNormTrainingFailure)
  ELSE IF ~ConstOk(inputs[8]) THEN Fail("internal_assert")
  ELSE
    LET v == Const(TRUE, "float32", PlaceholderFloat \o mem)
        placeholder == Call("broadcast_to_like", <<v, inputs[4]>>, NoAttrs)
        hasScale == ~relayIsNone(inputs[2])
        hasCenter == ~relayIsNone(inputs[3])
        attrs == [epsilon |-> ReadFloat(inputs[8].data), axis |-> 1,
                  scale |-> hasScale, center |-> hasCenter]
        weight == IF hasScale THEN inputs[2] ELSE placeholder
        bias == IF hasCenter THEN inputs[3] ELSE placeholder
        out == Call("nn.batch_norm",
                    <<inputs[1], weight, bias, inputs[4], inputs[5]>>, attrs)
    IN IF node.nOutputs # 1 THEN Fail("internal_assert")
       ELSE Ok(TupleGetItem(out, 0), FALSE)

\* aten::relu and aten::relu_
ReluRule(node, inputs) == Ok(Call("nn.relu", inputs, NoAttrs), FALSE)

\* aten::threshold_
ThresholdRule(node, inputs) ==
  IF \E i \in 1..3 : relayIsNone(inputs[i]) THEN Fail("check_failed")
  ELSE IF ~ConstOk(inputs[2]) THEN Fail("internal_assert")
  ELSE IF ~FloatLt1em7(ReadFloat(inputs[2].data)) THEN Fail("check_failed")
  ELSE IF ~FloatGtMinus1em7(ReadFloat(inputs[2].data))
  THEN Fail("check_failed")
  ELSE IF ~ConstOk(inputs[3]) THEN Fail("internal_assert")
  ELSE IF ~FloatLt1em7(ReadFloat(inputs[3].data)) THEN Fail("check_failed")
  ELSE IF ~FloatGtMinus1em7(ReadFloat(inputs[3].data))
  THEN Fail("check_failed")
  ELSE Ok(Call("nn.relu", <<inputs[1]>>, NoAttrs), FALSE)

\* aten::mul
MulRule(node, inputs) == Ok(Call("multiply", inputs, NoAttrs), FALSE)

\* if (strides.size() == 0) strides = pool_size; else strides = strides;
PoolStrides_NoDefault(pool_size, strides) == strides
PoolStrides(pool_size, strides) ==
  IF Len(strides) = 0 THEN pool_size ELSE strides

\* aten::avg_pool2d
AvgPoolRule(node, inputs) ==
  LET st == FirstFailure(<<
        ArrayStatus(inputs[2]), ArrayStatus(inputs[3]),
        ArrayStatus(inputs[4]), ConstStatus(inputs[5]),
        ConstStatus(inputs[6])>>)
  IN
  IF st # "ok" THEN Fail(st)
  ELSE
    LET pool_size == relayToArray(inputs[2])
        attrs == [pool_size |-> pool_size,
                  strides |-> PoolStrides(pool_size, relayToArray(inputs[3])),
                  padding |-> relayToArray(inputs[4]),
                  layout |-> "NCHW",
                  ceil_mode |-> ReadBool(inputs[5].data),
                  count_include_pad |-> ReadBool(inputs[6].data)]
    IN Ok(Call("nn.avg_pool2d", <<inputs[1]>>, attrs), FALSE)

\* aten::max_pool2d: inputs[4], the dilation, is not read
MaxPoolRule(node, inputs) ==
  LET st == FirstFailure(<<
        ArrayStatus(inputs[2]), ArrayStatus(inputs[3]),
        ArrayStatus(inputs[4]), ConstStatus(inputs[6])>>)
  IN
  IF st # "ok" THEN Fail(st)
  ELSE
    LET pool_size == relayToArray(inputs[2])
        attrs == [pool_size |-> pool_size,
                  strides |-> PoolStrides(pool_size, relayToArray(inputs[3])),
                  padding |-> relayToArray(inputs[4]),
                  layout |-> "NCHW",
                  ceil_mode |-> ReadBool(inputs[6].data)]
    IN Ok(Call("nn.max_pool2d", <<inputs[1]>>, attrs), FALSE)

\* aten::adaptive_avg_pool2d
AdaptivePoolRule(node, inputs) ==
  IF ArrayStatus(inputs[2]) # "ok" THEN Fail(ArrayStatus(inputs[2]))
  ELSE Ok(Call("contrib.adaptive_avg_pool2d", <<inputs[1]>>,
               [output_size |-> relayToArray(inputs[2]),
                layout |-> "NCHW"]), FALSE)

\* aten::reshape: the warning is printed when newshape[0] != -1
ReshapeRule(node, inputs) ==
  IF ArrayStatus(inputs[2]) # "ok" THEN Fail(ArrayStatus(inputs[2]))
  ELSE IF Len(relayToArray(inputs[2])) = 0 THEN Fail("internal_assert")
  ELSE Ok(Call("reshape", <<inputs[1]>>,
               [newshape |-> relayToArray(inputs[2]), reverse |-> FALSE]),
          relayToArray(inputs[2])[1] # -1)

\* tvm::Attrs(tvm::make_node<tvm::relay::DenseAttrs>())
DenseAttrs == [dense_attrs |-> TRUE]

\* aten::linear; node.inputDim is -1 when input 0 is no DimensionedTensorType
LinearRule(node, inputs) ==
  IF node.inputDim # -1 /\ node.inputDim # 2 THEN Fail("check_failed")
  ELSE
    LET out == Call("nn.dense", <<inputs[1], inputs[2]>>, DenseAttrs)
    IN IF ~relayIsNone(inputs[3]) THEN Ok(BiasAdd(out, inputs[3]), FALSE)
       ELSE Ok(out, FALSE)

\* calling the TVMOpFunctor stored for a symbol
ApplyRule(rule, node, inputs, mem) ==
  CASE rule \in {"add", "add_"}     -> AddRule(node, inputs)
    [] rule = "_convolution"        -> ConvRule(node, inputs)
    [] rule = "batch_norm"          -> BatchNormRule(node, inputs, mem)
    [] rule \in {"relu", "relu_"}   -> ReluRule(node, inputs)
    [] rule = "threshold_"          -> ThresholdRule(node, inputs)
    [] rule = "mul"                 -> MulRule(node, inputs)
    [] rule = "avg_pool2d"          -> AvgPoolRule(node, inputs)
    [] rule = "max_pool2d"          -> MaxPoolRule(node, inputs)
    [] rule = "adaptive_avg_pool2d" -> AdaptivePoolRule(node, inputs)
    [] rule = "reshape"             -> ReshapeRule(node, inputs)
    [] rule = "linear"              -> LinearRule(node, inputs)

----------------------------------------------------------------------------
(* Operator translation registry *)

\* the entries of the static table `reg`, in order: symbol, rule, name
StaticTable == <<
  [sym |-> "aten::add", fn |-> "add", name |-> ""],
  [sym |-> "aten::add_", fn |-> "add_", name |-> ""],
  [sym |-> "aten::_convolution", fn |-> "_convolution", name |-> ""],
  [sym |-> "aten::batch_norm", fn |-> "batch_norm", name |-> ""],
  [sym |-> "aten::relu_", fn |-> "relu_", name |-> ""],
  [sym |-> "aten::relu", fn |-> "relu", name |-> "relu"],
  [sym |-> "aten::threshold_", fn |-> "threshold_", name |-> ""],
  [sym |-> "aten::mul", fn |-> "mul", name |-> ""],
  [sym |-> "aten::avg_pool2d", fn |-> "avg_pool2d", name |-> ""],
  [sym |-> "aten::adaptive_avg_pool2d", fn |-> "adaptive_avg_pool2d",
   name |-> ""],
  [sym |-> "aten::max_pool2d", fn |-> "max_pool2d", name |-> ""],
  [sym |-> "aten::reshape", fn |-> "reshape", name |-> ""],
  [sym |-> "aten::linear", fn |-> "linear", name |-> ""] >>

\* node kinds: those of the table and one no rule is registered for
Symbols ==
  {StaticTable[i].sym : i \in 1..Len(StaticTable)} \cup {"prim::Constant"}

\* getTVMOperatorMap(): the function-local static map starts empty
EmptyOpMap == [s \in Symbols |-> Absent]

\* getTVMOperatorMap()[op.sym] = op.fn
OpMapInsert_KeepFirst(map, sym, fn) ==
  IF map[sym] = Absent THEN [map EXCEPT ![sym] = fn] ELSE map
OpMapInsert(map, sym, fn) == [map EXCEPT ![sym] = fn]

\* getAllOperatorsFor(op.sym): how many overloads the framework has
Overloads(sym) == IF sym = "aten::relu" THEN 1 ELSE 2

\* the loop of RegisterTVMOperator over its entries: the map
RECURSIVE ApplyOps(_, _)
ApplyOps(map, ops) ==
  IF ops = <<>> THEN map
  ELSE ApplyOps(OpMapInsert(map, Head(ops).sym, Head(ops).fn), Tail(ops))

\* the loop of RegisterTVMOperator: the operators "tvm::" + name it exposes,
\* one wrapper graph and one torch operator per overload
RECURSIVE Repeat(_, _)
Repeat(x, n) == IF n = 0 THEN <<>> ELSE <<x>> \o Repeat(x, n - 1)
RECURSIVE ExposedOps(_)
ExposedOps(ops) ==
  IF ops = <<>> THEN <<>>
  ELSE (IF Head(ops).name # ""
        THEN Repeat("tvm::" \o Head(ops).name, Overloads(Head(ops).sym))
        ELSE <<>>) \o ExposedOps(Tail(ops))

\* bool isSupported(Node* node)
isSupported(map, node) == map[node.kind] # Absent

\* tvm::relay::Expr getOperator(Node* node, tvm::Array<Expr> inputs)
getOperator(map, node, inputs, mem) ==
  IF ~isSupported(map, node) THEN Fail("internal_assert")
  ELSE ApplyRule(map[node.kind], node, inputs, mem)

Node(kind, nOutputs, inputDim) ==
  [kind |-> kind, nOutputs |-> nOutputs, inputDim |-> inputDim]
NoNode == Node("none", 0, -1)

OpSyms(ops) == {ops[i].sym : i \in 1..Len(ops)}
\* the rule the last entry for sym in ops carries
LastRuleIn(ops, sym) ==
  ops[CHOOSE i \in 1..Len(ops) :
        ops[i].sym = sym /\ \A j \in (i + 1)..Len(ops) : ops[j].sym # sym].fn

\* RegisterTVMOperator::RegisterTVMOperator(ops)
RegisterTVMOperator(ops) ==
  /\ nOpRegs < MaxOpRegs
  /\ nOpRegs' = nOpRegs + 1
  /\ opMap' = ApplyOps(opMap, ops)
  /\ wrapperGraphs' = wrapperGraphs + Len(ExposedOps(ops))
  /\ torchOps' = torchOps \o ExposedOps(ops)
  /\ everRegistered' = everRegistered \cup OpSyms(ops)
  /\ lastRegistered' =
       [s \in Symbols |-> IF s \in OpSyms(ops) THEN LastRuleIn(ops, s)
                          ELSE lastRegistered[s]]
  /\ overwritten' = overwritten \cup
       {s \in OpSyms(ops) :
          \/ s \in everRegistered /\ lastRegistered[s] # LastRuleIn(ops, s)
          \/ \E i \in 1..Len(ops) :
               ops[i].sym = s /\ ops[i].fn # LastRuleIn(ops, s)}
  /\ lastCall' = "register"
  /\ lastNode' = NoNode
  /\ lastInputs' = <<>>
  /\ result' = Fail("none")
  /\ supported' = FALSE
  /\ noneArg' = NullExpr
  /\ noneResult' = FALSE
  /\ chain' = 0
  /\ prevNode' = NoNode
  /\ prevInputs' = <<>>

\* The variables lastCall .. prevInputs record the latest call only: each
\* call below overwrites the whole record.

\* a call of isSupported(node)
CallIsSupported(node) ==
  /\ supported' = isSupported(opMap, node)
  /\ lastCall' = "isSupported"
  /\ lastNode' = node
  /\ lastInputs' = <<>>
  /\ result' = Fail("none")
  /\ noneArg' = NullExpr
  /\ noneResult' = FALSE
  /\ chain' = 0
  /\ prevNode' = NoNode
  /\ prevInputs' = <<>>
  /\ UNCHANGED regVars

\* a call of getOperator(node, inputs) on inputs the caller built
CallGetOperator(node, inputs, mem) ==
  /\ result' = getOperator(opMap, node, inputs, mem)
  /\ lastCall' = "getOperator"
  /\ lastNode' = node
  /\ lastInputs' = inputs
  /\ chain' = 0
  /\ prevNode' = NoNode
  /\ prevInputs' = <<>>
  /\ supported' = FALSE
  /\ noneArg' = NullExpr
  /\ noneResult' = FALSE
  /\ UNCHANGED regVars

\* a call of getOperator(node, inputs) whose first input is the expression
\* the previous call returned, as the compiler lowers a node sequence
CallGetOperatorOnResult(node, rest, mem) ==
  /\ lastCall = "getOperator"
  /\ result.status = "ok"
  /\ chain < MaxChain
  /\ result' = getOperator(opMap, node, <<result.expr>> \o rest, mem)
  /\ lastCall' = "getOperator"
  /\ lastNode' = node
  /\ lastInputs' = <<result.expr>> \o rest
  /\ chain' = chain + 1
  /\ prevNode' = lastNode
  /\ prevInputs' = lastInputs
  /\ supported' = FALSE
  /\ noneArg' = NullExpr
  /\ noneResult' = FALSE
  /\ UNCHANGED regVars

\* a call of relayIsNone(e)
CallRelayIsNone(e) ==
  /\ noneArg' = e
  /\ noneResult' = relayIsNone(e)
  /\ lastCall' = "relayIsNone"
  /\ lastNode' = NoNode
  /\ lastInputs' = <<>>
  /\ result' = Fail("none")
  /\ supported' = FALSE
  /\ chain' = 0
  /\ prevNode' = NoNode
  /\ prevInputs' = <<>>
  /\ UNCHANGED regVars

TransIdle ==
  /\ wrapperGraphs = 0
  /\ torchOps = <<>>
  /\ everRegistered = {}
  /\ lastRegistered = [s \in Symbols |-> Absent]
  /\ overwritten = {}
  /\ nOpRegs = 0
  /\ lastCall = "none"
  /\ lastNode = NoNode
  /\ lastInputs = <<>>
  /\ result = Fail("none")
  /\ supported = FALSE
  /\ noneArg = NullExpr
  /\ noneResult = FALSE
  /\ chain = 0
  /\ prevNode = NoNode
  /\ prevInputs = <<>>

----------------------------------------------------------------------------
(* Inputs *)

ZeroTail4 == <<0, 0, 0, 0>>
\* memory that last held the upper half of a none constant
SentinelTail4 == SubSeq(getNoneSentinel, 5, 8)
Tails4 == {ZeroTail4, SentinelTail4}
Tails7 == {<<0, 0, 0, 0, 0, 0, 0>>, SubSeq(getNoneSentinel, 2, 8)}

IntConst(v, tail) == Const(TRUE, "int32", Int32Bytes(v) \o tail)
FloatConst(bytes, tail) == Const(TRUE, "float32", bytes \o tail)
BoolConst(b, tail) == Const(TRUE, "bool", <<IF b THEN 1 ELSE 0>> \o tail)
\* the constant the compiler builds for an absent argument
NoneConst == Const(TRUE, "uint64", getNoneSentinel)
\* tensor constants: not scalar
TensorConst == Const(FALSE, "float32", <<0, 0, 128, 63, 0, 0, 0, 64>>)
TensorConstSentinel == Const(FALSE, "uint64", getNoneSentinel)
IntTuple(vs) ==
  TupleExpr([i \in 1..Len(vs) |-> IntConst(vs[i], ZeroTail4)])

Float0 == <<0, 0, 0, 0>>
FloatHalf == <<0, 0, 0, 63>>
FloatOne == <<0, 0, 128, 63>>
FloatEps == <<172, 197, 39, 55>>
FloatDenormMin == <<1, 0, 0, 0>>
\* -6191131.0f, the float whose bits are the low half of the sentinel
FloatLowSentinel == SubSeq(getNoneSentinel, 1, 4)
\* -893587402, the int whose bits are the low half of the sentinel
IntLowSentinel == ReadInt(getNoneSentinel)

X == Var("x", TRUE, <<1, 3, 8, 8>>)
Y == Var("y", TRUE, <<1, 3, 8, 8>>)
W == Var("w", TRUE, <<4, 3, 3, 3>>)
W2 == Var("w2", TRUE, <<4, 3, 5, 3>>)
WUntyped == Var("wu", FALSE, <<>>)
B == Var("b", TRUE, <<4>>)
False == BoolConst(FALSE, <<0, 0, 0, 0, 0, 0, 0>>)
True == BoolConst(TRUE, <<0, 0, 0, 0, 0, 0, 0>>)

----------------------------------------------------------------------------
(* Schedule gate *)

Names == {"nn.dense", "nn.conv2d"}
Null == "nullptr"
Strategy == "strategy"
\* the lambda []() { return nullptr; } stored after installation
NOOP == "noop"
\* registered functors: one that always yields a strategy, one that never
\* does, one whose lookup may or may not have a strategy yet
Ctors == {"ctor_sched", "ctor_null", "ctor_late"}
Threads == {1, 2}

\* sched_f(): the values a stored functor can return
CtorResults(f) ==
  CASE f = "ctor_sched" -> {Strategy}
    [] f = "ctor_null"  -> {Null}
    [] f = "ctor_late"  -> {Null, Strategy}
    [] OTHER            -> {Null}

\* getTVMScheduleMap(): the function-local static map starts empty
EmptySchedMap == [n \in Names |-> Absent]

\* getTVMScheduleMap().find(name) != getTVMScheduleMap().end()
SchedFound(map, name) == map[name] # Absent

\* getTVMScheduleMap()[name] = sched_f
ScheduleMapInsert(map, name, f) == [map EXCEPT ![name] = f]

\* the loop of RegisterTVMOperatorSchedule over its pairs, in order
RECURSIVE ApplyScheds(_, _)
ApplyScheds(map, scheds) ==
  IF scheds = <<>> THEN map
  ELSE ApplyScheds(ScheduleMapInsert(map, Head(scheds)[1], Head(scheds)[2]),
                   Tail(scheds))

\* if (sched) { (*reg)(name, "FTVMSchedule", *sched, 10); ... }
SchedInstalled_Always(s) == TRUE
SchedInstalled(s) == s # Null

\* if (sched) { ...; getTVMScheduleMap()[name] = []() { return nullptr; }; }
SlotAfter_NeverReplace(s, old) == old
SlotAfter_AlwaysReplace(s, old) == NOOP
SlotAfter(s, old) == IF s # Null THEN NOOP ELSE old

SchedBatches ==
  UNION {[1..k -> Names \X Ctors] : k \in 1..MaxBatch}
BatchNames(scheds) == {scheds[i][1] : i \in 1..Len(scheds)}
\* batches of a static initialisation that names every operator once
FreshBatches(map) ==
  {b \in SchedBatches :
     /\ \A i, j \in 1..Len(b) : b[i][1] = b[j][1] => i = j
     /\ \A i \in 1..Len(b) : map[b[i][1]] = Absent}

\* RegisterTVMOperatorSchedule::RegisterTVMOperatorSchedule(scheds)
RegisterTVMOperatorSchedule(scheds) ==
  /\ schedMap' = ApplyScheds(schedMap, scheds)
  /\ installedSinceReg' =
       [n \in Names |-> IF n \in BatchNames(scheds) THEN 0
                        ELSE installedSinceReg[n]]
  /\ nRegs' = nRegs + 1
  /\ UNCHANGED <<relayRegister, installed, ctorCalls, ensured, gateOutcome,
                 nCalls>>

\* void registerSchedule(std::string name), run to completion
registerSchedule(name) ==
  /\ nCalls < MaxCalls
  /\ nCalls' = nCalls + 1
  /\ IF ~SchedFound(schedMap, name)
     THEN /\ gateOutcome' = "assert_not_registered"
          /\ UNCHANGED <<schedMap, installed, ctorCalls, ensured,
                         installedSinceReg>>
     ELSE IF ~relayRegister
     THEN /\ gateOutcome' = "assert_no_registry"
          /\ UNCHANGED <<schedMap, installed, ctorCalls, ensured,
                         installedSinceReg>>
     ELSE \E s \in CtorResults(schedMap[name]) :
            /\ ensured' = [ensured EXCEPT ![name] = @ + 1]
            /\ ctorCalls' = [ctorCalls EXCEPT
                 ![name] = IF schedMap[name] # NOOP THEN @ + 1 ELSE @]
            /\ installed' = [installed EXCEPT
                 ![name] = IF SchedInstalled(s) THEN @ + 1 ELSE @]
            /\ installedSinceReg' = [installedSinceReg EXCEPT
                 ![name] = IF SchedInstalled(s) THEN @ + 1 ELSE @]
            /\ schedMap' = [schedMap EXCEPT ![name] = SlotAfter(s, @)]
            /\ gateOutcome' = IF SchedInstalled(s) THEN "installed"
                              ELSE "nothing"
  /\ UNCHANGED <<relayRegister, nRegs>>

GateInit ==
  /\ schedMap = EmptySchedMap
  /\ relayRegister \in BOOLEAN
  /\ installed = [n \in Names |-> 0]
  /\ ctorCalls = [n \in Names |-> 0]
  /\ ensured = [n \in Names |-> 0]
  /\ installedSinceReg = [n \in Names |-> 0]
  /\ gateOutcome = "none"
  /\ nCalls = 0
  /\ nRegs = 0

ConcIdle ==
  /\ pc = [t \in Threads |-> "idle"]
  /\ tname = [t \in Threads |-> "nn.dense"]
  /\ sched_f = [t \in Threads |-> NOOP]
  /\ sched = [t \in Threads |-> Null]
  /\ overlap = FALSE
  /\ tcalls = [t \in Threads |-> 0]
  /\ raced = [t \in Threads |-> FALSE]

\* every name registered at most once, then sequential registerSchedule calls
RegisterOnce ==
  /\ \E b \in FreshBatches(schedMap) : RegisterTVMOperatorSchedule(b)
  /\ UNCHANGED <<concVars, regVars, callVars>>

\* any registration at any time
RegisterAgain ==
  /\ nRegs < MaxRegs
  /\ \E b \in SchedBatches : RegisterTVMOperatorSchedule(b)
  /\ UNCHANGED <<concVars, regVars, callVars>>

EnsureInstalled ==
  /\ \E n \in Names : registerSchedule(n)
  /\ UNCHANGED <<concVars, regVars, callVars>>

InitGate == GateInit /\ ConcIdle /\ TransIdle /\ opMap = EmptyOpMap
NextGateOnce == RegisterOnce \/ EnsureInstalled
SpecGateOnce == InitGate /\ [][NextGateOnce]_vars
NextGate == RegisterAgain \/ EnsureInstalled
SpecGate == InitGate /\ [][NextGate]_vars

----------------------------------------------------------------------------
(* registerSchedule executed by two threads, one statement at a time.  The *)
(* function takes no lock: the find, the copy of the stored functor, the   *)
(* call of it, the installation and the store of the no-op are separate    *)
(* steps.  The copy of line 78 and the assignment of line 85 access the    *)
(* same std::function object of the map; each takes time, and when a copy  *)
(* or a store of one thread overlaps a store of another thread on the same *)
(* name the program has a data race.  Its outcome is undefined: the copy   *)
(* yields the old functor or the new one, or throws out of the call        *)
(* (std::length_error while cloning the functor being destroyed), or the   *)
(* process dies (double free, segmentation fault).                         *)

\* the process is killed: no thread takes another step
Aborted == [t \in Threads |-> "aborted"]

\* a thread enters registerSchedule(name)
EnterCall(t) ==
  /\ UNCHANGED <<regVars, callVars>>
  /\ pc[t] = "idle"
  /\ tcalls[t] < MaxThreadCalls
  /\ \E n \in Names : tname' = [tname EXCEPT ![t] = n]
  /\ tcalls' = [tcalls EXCEPT ![t] = @ + 1]
  /\ overlap' = (overlap \/ \E u \in Threads \ {t} : pc[u] # "idle")
  /\ pc' = [pc EXCEPT ![t] = "find"]
  /\ UNCHANGED <<gateVars, sched_f, sched, raced>>

\* TORCH_INTERNAL_ASSERT(getTVMScheduleMap().find(name) != ...end())
AssertFound(t) ==
  /\ UNCHANGED <<regVars, callVars>>
  /\ pc[t] = "find"
  /\ IF SchedFound(schedMap, tname[t])
     THEN /\ pc' = [pc EXCEPT ![t] = "load"]
          /\ UNCHANGED gateOutcome
     ELSE /\ pc' = [pc EXCEPT ![t] = "idle"]
          /\ gateOutcome' = "assert_not_registered"
  /\ UNCHANGED <<schedMap, relayRegister, installed, ctorCalls, ensured,
                 installedSinceReg, nCalls, nRegs, tname, sched_f, sched,
                 overlap, tcalls, raced>>

\* TVMScheduleFunctor sched_f = getTVMScheduleMap()[name]; the copy starts
\* reading the stored functor
BeginCopy(t) ==
  /\ UNCHANGED <<regVars, callVars>>
  /\ pc[t] = "load"
  /\ sched_f' = [sched_f EXCEPT ![t] = schedMap[tname[t]]]
  /\ raced' = [raced EXCEPT ![t] =
       \E u \in Threads \ {t} : pc[u] = "storing" /\ tname[u] = tname[t]]
  /\ pc' = [pc EXCEPT ![t] = "copy"]
  /\ UNCHANGED <<gateVars, tname, sched, overlap, tcalls>>

\* TVMScheduleFunctor sched_f = getTVMScheduleMap()[name]; the copy ends.
\* Without a concurrent store it holds the stored functor; with one, any of
\* the outcomes of the data race.
LoadFunctor(t) ==
  /\ UNCHANGED <<regVars, callVars>>
  /\ pc[t] = "copy"
  /\ raced' = [raced EXCEPT ![t] = FALSE]
  /\ IF ~raced[t]
     THEN /\ pc' = [pc EXCEPT ![t] = "getreg"]
          /\ UNCHANGED <<gateVars, sched_f>>
     ELSE \/ /\ \E f \in {sched_f[t], schedMap[tname[t]], NOOP} :
                  sched_f' = [sched_f EXCEPT ![t] = f]
             /\ pc' = [pc EXCEPT ![t] = "getreg"]
             /\ UNCHANGED gateVars
          \/ /\ pc' = [pc EXCEPT ![t] = "idle"]
             /\ gateOutcome' = "thrown"
             /\ UNCHANGED <<schedMap, relayRegister, installed, ctorCalls,
                            ensured, installedSinceReg, nCalls, nRegs,
                            sched_f>>
          \/ /\ pc' = Aborted
             /\ gateOutcome' = "crashed"
             /\ UNCHANGED <<schedMap, relayRegister, installed, ctorCalls,
                            ensured, installedSinceReg, nCalls, nRegs,
                            sched_f>>
  /\ UNCHANGED <<tname, sched, overlap, tcalls>>

\* auto reg = Registry::Get("relay.op._Register"); TORCH_INTERNAL_ASSERT(reg);
GetRegistry(t) ==
  /\ UNCHANGED <<regVars, callVars>>
  /\ pc[t] = "getreg"
  /\ IF relayRegister
     THEN /\ pc' = [pc EXCEPT ![t] = "invoke"]
          /\ UNCHANGED gateOutcome
     ELSE /\ pc' = [pc EXCEPT ![t] = "idle"]
          /\ gateOutcome' = "assert_no_registry"
  /\ UNCHANGED <<schedMap, relayRegister, installed, ctorCalls, ensured,
                 installedSinceReg, nCalls, nRegs, tname, sched_f, sched,
                 overlap, tcalls, raced>>

\* auto sched = sched_f(); if (sched) ...
Invoke(t) ==
  /\ UNCHANGED <<regVars, callVars>>
  /\ pc[t] = "invoke"
  /\ \E s \in CtorResults(sched_f[t]) :
       /\ sched' = [sched EXCEPT ![t] = s]
       /\ pc' = [pc EXCEPT ![t] = IF SchedInstalled(s) THEN "install"
                                  ELSE "idle"]
       /\ gateOutcome' = IF SchedInstalled(s) THEN gateOutcome ELSE "nothing"
  /\ ensured' = [ensured EXCEPT ![tname[t]] = @ + 1]
  /\ ctorCalls' = [ctorCalls EXCEPT
       ![tname[t]] = IF sched_f[t] # NOOP THEN @ + 1 ELSE @]
  /\ UNCHANGED <<schedMap, relayRegister, installed, installedSinceReg,
                 nCalls, nRegs, tname, sched_f, overlap, tcalls, raced>>

\* (*reg)(name, "FTVMSchedule", *sched, 10);
Install(t) ==
  /\ UNCHANGED <<regVars, callVars>>
  /\ pc[t] = "install"
  /\ installed' = [installed EXCEPT ![tname[t]] = @ + 1]
  /\ installedSinceReg' = [installedSinceReg EXCEPT ![tname[t]] = @ + 1]
  /\ gateOutcome' = "installed"
  /\ pc' = [pc EXCEPT ![t] = "store"]
  /\ UNCHANGED <<schedMap, relayRegister, ctorCalls, ensured, nCalls, nRegs,
                 tname, sched_f, sched, overlap, tcalls, raced>>

\* getTVMScheduleMap()[name] = []() { return nullptr; }; the assignment
\* starts: it races with every copy and every store of the same slot that
\* another thread has in progress
BeginStore(t) ==
  /\ UNCHANGED <<regVars, callVars>>
  /\ pc[t] = "store"
  /\ raced' = [u \in Threads |->
       IF u = t
       THEN \E v \in Threads \ {t} :
              pc[v] = "storing" /\ tname[v] = tname[t]
       ELSE raced[u] \/ (pc[u] \in {"copy", "storing"}
                         /\ tname[u] = tname[t])]
  /\ pc' = [pc EXCEPT ![t] = "storing"]
  /\ UNCHANGED <<gateVars, tname, sched_f, sched, overlap, tcalls>>

\* getTVMScheduleMap()[name] = []() { return nullptr; }; the assignment
\* ends.  Two assignments of the same slot at once destroy the old functor
\* twice: the no-op is stored, or the process dies.
StoreNoop_Skip(t) ==
  /\ pc[t] = "storing"
  /\ pc' = [pc EXCEPT ![t] = "idle"]
  /\ raced' = [raced EXCEPT ![t] = FALSE]
  /\ UNCHANGED <<gateVars, regVars, callVars, tname, sched_f, sched, overlap,
                 tcalls>>
StoreNoop(t) ==
  /\ UNCHANGED <<regVars, callVars>>
  /\ pc[t] = "storing"
  /\ raced' = [raced EXCEPT ![t] = FALSE]
  /\ \/ /\ schedMap' = [schedMap EXCEPT ![tname[t]] = SlotAfter(sched[t], @)]
        /\ pc' = [pc EXCEPT ![t] = "idle"]
        /\ UNCHANGED gateOutcome
     \/ /\ raced[t]
        /\ pc' = Aborted
        /\ gateOutcome' = "crashed"
        /\ UNCHANGED schedMap
  /\ UNCHANGED <<relayRegister, installed, ctorCalls, ensured,
                 installedSinceReg, nCalls, nRegs, tname, sched_f, sched,
                 overlap, tcalls>>

\* static initialisation: runs before any thread calls registerSchedule
RegisterStatic ==
  /\ \A t \in Threads : tcalls[t] = 0
  /\ \E b \in FreshBatches(schedMap) : RegisterTVMOperatorSchedule(b)
  /\ UNCHANGED <<concVars, regVars, callVars>>

NextGateConc ==
  \/ RegisterStatic
  \/ \E t \in Threads : EnterCall(t)
  \/ \E t \in Threads : AssertFound(t)
  \/ \E t \in Threads : BeginCopy(t)
  \/ \E t \in Threads : LoadFunctor(t)
  \/ \E t \in Threads : GetRegistry(t)
  \/ \E t \in Threads : Invoke(t)
  \/ \E t \in Threads : Install(t)
  \/ \E t \in Threads : BeginStore(t)
  \/ \E t \in Threads : StoreNoop(t)
SpecGateConc == InitGate /\ [][NextGateConc]_vars

----------------------------------------------------------------------------
(* The registry under registration, lookup and dispatch *)

RegistryKinds == {"aten::relu", "aten::mul", "prim::Constant"}
RegEntries ==
  {[sym |-> "aten::relu", fn |-> "relu", name |-> "relu"],
   [sym |-> "aten::relu", fn |-> "mul", name |-> ""],
   [sym |-> "aten::mul", fn |-> "mul", name |-> ""],
   [sym |-> "aten::mul", fn |-> "relu", name |-> "mul"]}
OpBatches ==
  {StaticTable} \cup UNION {[1..k -> RegEntries] : k \in 1..MaxOpBatch}

RegisterOperators ==
  /\ \E ops \in OpBatches : RegisterTVMOperator(ops)
  /\ UNCHANGED <<gateVars, concVars>>

QuerySupported ==
  /\ \E k \in RegistryKinds : CallIsSupported(Node(k, 1, -1))
  /\ UNCHANGED <<gateVars, concVars>>

Translate ==
  /\ \E k \in RegistryKinds, inputs \in {<<X>>, <<X, Y>>} :
       CallGetOperator(Node(k, 1, -1), inputs, ZeroTail4)
  /\ UNCHANGED <<gateVars, concVars>>

InitRegistry ==
  GateInit /\ relayRegister /\ ConcIdle /\ TransIdle /\ opMap = EmptyOpMap
NextRegistry == RegisterOperators \/ QuerySupported \/ Translate
SpecRegistry == InitRegistry /\ [][NextRegistry]_vars

----------------------------------------------------------------------------
(* The rules of the static table, called through getOperator *)

AddScales ==
  {IntConst(v, t) : v \in {0, 1, 2}, t \in Tails4}
    \cup {FloatConst(FloatOne, ZeroTail4),
          FloatConst(FloatDenormMin, ZeroTail4),
          Const(TRUE, "uint64", <<1, 0, 0, 0, 1, 0, 0, 0>>),
          NoneConst, TensorConst, Y}
AddInputs ==
  {<<X, Y>>, <<X, Y, IntConst(1, ZeroTail4), False>>}
    \cup {<<X, Y, c>> : c \in AddScales}

ConvInputs ==
  {<<X, w, b, IntTuple(s), IntTuple(<<0, 0>>), IntTuple(<<1, 1>>), t,
     IntTuple(<<0, 0>>), IntConst(g, ZeroTail4), False, False, True>> :
     w \in {W, W2, WUntyped, TensorConst},
     b \in {B, NoneConst, TensorConst},
     s \in {<<1, 1>>, <<2, 1>>},
     t \in {False, True, X},
     g \in {1, 2}}

BatchNormFull ==
  {<<X, g, b, Var("mean", TRUE, <<3>>), Var("var", TRUE, <<3>>), t,
     FloatConst(FloatHalf, ZeroTail4), FloatConst(FloatEps, ZeroTail4),
     True>> :
     g \in {Var("gamma", TRUE, <<3>>), NoneConst},
     b \in {Var("beta", TRUE, <<3>>), NoneConst},
     t \in {False, True, X}}
BatchNormInputs ==
  BatchNormFull \cup {SubSeq(i, 1, 8) : i \in BatchNormFull}

PoolSizes == {<<2, 2>>, <<3, 2>>}
PoolStrideArrays == {<<>>, <<2, 2>>, <<1, 2>>, <<3, 1>>}
\* a stride tuple holding a tensor where a scalar belongs
BadTuple == TupleExpr(<<IntConst(2, ZeroTail4), TensorConst>>)
AvgPoolInputs ==
  {<<X, IntTuple(p), s, IntTuple(<<0, 0>>), c, True>> :
     p \in PoolSizes,
     s \in {IntTuple(a) : a \in PoolStrideArrays} \cup {BadTuple},
     c \in {False, True}}
MaxPoolInputs ==
  {<<X, IntTuple(p), s, IntTuple(<<0, 0>>), IntTuple(<<1, 1>>), c>> :
     p \in PoolSizes,
     s \in {IntTuple(a) : a \in PoolStrideArrays} \cup {BadTuple},
     c \in {False, True}}

ThresholdInputs ==
  {<<X, FloatConst(t, ZeroTail4), FloatConst(v, ZeroTail4)>> :
     t \in {Float0, FloatHalf, FloatDenormMin},
     v \in {Float0, FloatOne}}
    \cup {<<X, NoneConst, FloatConst(Float0, ZeroTail4)>>}

LinearInputs == {<<X, W, b>> : b \in {B, NoneConst}}

ReshapeInputs ==
  {<<X, IntTuple(s)>> : s \in {<<-1, 4>>, <<2, -1>>, <<>>}}

\* scalars of the types the rules read (bool, int, float), the none
\* constant, tensor constants and a variable
NoneProbes ==
  {IntConst(v, t) : v \in {0, 1, IntLowSentinel}, t \in Tails4}
    \cup {FloatConst(f, t) :
            f \in {Float0, FloatOne, FloatLowSentinel}, t \in Tails4}
    \cup {BoolConst(b, t) : b \in BOOLEAN, t \in Tails7}
    \cup {NoneConst, TensorConst, TensorConstSentinel, X}

TranslateAdd ==
  /\ \E k \in {"aten::add", "aten::add_"}, inputs \in AddInputs :
       CallGetOperator(Node(k, 1, -1), inputs, ZeroTail4)
  /\ UNCHANGED <<gateVars, concVars>>

TranslateConv ==
  /\ \E inputs \in ConvInputs :
       CallGetOperator(Node("aten::_convolution", 1, -1), inputs, ZeroTail4)
  /\ UNCHANGED <<gateVars, concVars>>

TranslateBatchNorm ==
  /\ \E inputs \in BatchNormInputs, n \in {1, 2}, mem \in Tails4 :
       CallGetOperator(Node("aten::batch_norm", n, -1), inputs, mem)
  /\ UNCHANGED <<gateVars, concVars>>

TranslateRelu ==
  /\ \E k \in {"aten::relu", "aten::relu_"} :
       CallGetOperator(Node(k, 1, -1), <<X>>, ZeroTail4)
  /\ UNCHANGED <<gateVars, concVars>>

\* the next node of a sequence: its first input is the previous result
TranslateNext ==
  /\ \/ CallGetOperatorOnResult(Node("aten::relu", 1, -1), <<>>, ZeroTail4)
     \/ CallGetOperatorOnResult(Node("aten::mul", 1, -1), <<Y>>, ZeroTail4)
  /\ UNCHANGED <<gateVars, concVars>>

TranslateThreshold ==
  /\ \E inputs \in ThresholdInputs :
       CallGetOperator(Node("aten::threshold_", 1, -1), inputs, ZeroTail4)
  /\ UNCHANGED <<gateVars, concVars>>

TranslateMul ==
  /\ CallGetOperator(Node("aten::mul", 1, -1), <<X, Y>>, ZeroTail4)
  /\ UNCHANGED <<gateVars, concVars>>

TranslateAvgPool ==
  /\ \E inputs \in AvgPoolInputs :
       CallGetOperator(Node("aten::avg_pool2d", 1, -1), inputs, ZeroTail4)
  /\ UNCHANGED <<gateVars, concVars>>

TranslateMaxPool ==
  /\ \E inputs \in MaxPoolInputs :
       CallGetOperator(Node("aten::max_pool2d", 1, -1), inputs, ZeroTail4)
  /\ UNCHANGED <<gateVars, concVars>>

TranslateAdaptivePool ==
  /\ \E p \in PoolSizes :
       CallGetOperator(Node("aten::adaptive_avg_pool2d", 1, -1),
                       <<X, IntTuple(p)>>, ZeroTail4)
  /\ UNCHANGED <<gateVars, concVars>>

TranslateReshape ==
  /\ \E inputs \in ReshapeInputs :
       CallGetOperator(Node("aten::reshape", 1, -1), inputs, ZeroTail4)
  /\ UNCHANGED <<gateVars, concVars>>

TranslateLinear ==
  /\ \E inputs \in LinearInputs, d \in {-1, 2, 3} :
       CallGetOperator(Node("aten::linear", 1, d), inputs, ZeroTail4)
  /\ UNCHANGED <<gateVars, concVars>>

TranslateUnsupported ==
  /\ CallGetOperator(Node("prim::Constant", 1, -1), <<>>, ZeroTail4)
  /\ UNCHANGED <<gateVars, concVars>>

ProbeNone ==
  /\ \E e \in NoneProbes : CallRelayIsNone(e)
  /\ UNCHANGED <<gateVars, concVars>>

\* the registry once the static initialiser of `reg` has run
InitRules ==
  /\ GateInit /\ ConcIdle
  /\ relayRegister
  /\ opMap = ApplyOps(EmptyOpMap, StaticTable)
  /\ wrapperGraphs = Len(ExposedOps(StaticTable))
  /\ torchOps = ExposedOps(StaticTable)
  /\ everRegistered = OpSyms(StaticTable)
  /\ lastRegistered =
       [s \in Symbols |-> IF s \in OpSyms(StaticTable)
                          THEN LastRuleIn(StaticTable, s) ELSE Absent]
  /\ overwritten = {}
  /\ nOpRegs = 1
  /\ lastCall = "none"
  /\ lastNode = NoNode
  /\ lastInputs = <<>>
  /\ result = Fail("none")
  /\ supported = FALSE
  /\ noneArg = NullExpr
  /\ noneResult = FALSE
  /\ chain = 0
  /\ prevNode = NoNode
  /\ prevInputs = <<>>

NextRules ==
  \/ TranslateAdd \/ TranslateConv \/ TranslateBatchNorm \/ TranslateRelu
  \/ TranslateNext \/ TranslateThreshold \/ TranslateMul
  \/ TranslateAvgPool \/ TranslateMaxPool \/ TranslateAdaptivePool
  \/ TranslateReshape \/ TranslateLinear \/ TranslateUnsupported
  \/ ProbeNone
SpecRules == InitRules /\ [][NextRules]_vars

----------------------------------------------------------------------------
(* Claims about the schedule gate *)

\* C1: once every name is registered a single time, any number of
\* sequential registerSchedule(name) calls installs the strategy of a name
\* at most once, and the call that installed it leaves the no-op in the
\* slot, so no later call installs.
C1_InstalledAtMostOnce ==
  \A n \in Names :
    /\ installed[n] <= 1
    /\ installed[n] = 1 => schedMap[n] = NOOP

\* C1 witness: a name was installed once and registerSchedule ran at least
\* twice more on it afterwards.
C1_Witness ==
  \E n \in Names : installed[n] = 1 /\ ensured[n] >= 3 /\ ctorCalls[n] = 1

\* C2 as stated: the registered constructor is invoked exactly once, and
\* after the first registerSchedule call the slot holds the no-op whether or
\* not the constructor returned a strategy.
C2_InvokedExactlyOnce ==
  \A n \in Names :
    /\ ctorCalls[n] <= 1
    /\ ensured[n] >= 1 => schedMap[n] = NOOP /\ ctorCalls[n] = 1

\* C2 amended: the registered constructor is invoked by every
\* registerSchedule call until one call gets a strategy from it; while it
\* has returned only null the slot still holds it; the call that gets a
\* strategy stores the no-op, and from then on the constructor is never
\* invoked again.
C2_InvokedUntilStrategy ==
  /\ [](\A n \in Names :
          /\ (installed[n] = 0 /\ schedMap[n] # Absent) =>
               (schedMap[n] \in Ctors /\ ctorCalls[n] = ensured[n])
          /\ installed[n] >= 1 => schedMap[n] = NOOP)
  /\ [][\A n \in Names :
          schedMap[n] = NOOP => ctorCalls'[n] = ctorCalls[n]]_vars

\* C2 witness: the constructor returned null, was invoked again and then
\* returned a strategy, and a later call did not invoke it.
C2_Witness ==
  \E n \in Names :
    ctorCalls[n] = 2 /\ installed[n] = 1 /\ ensured[n] = 3

\* C9 as stated: at most one installation per name over every interleaving
\* of registrations and registerSchedule calls.
C9_OncePerName == \A n \in Names : installed[n] <= 1

\* C9 amended: at most one installation per registration of a name: between
\* two registrations of it at most one registerSchedule call installs, and
\* registering it again replaces the no-op, so a later call installs again.
C9_OncePerRegistration ==
  \A n \in Names :
    /\ installedSinceReg[n] <= 1
    /\ installedSinceReg[n] = 1 => schedMap[n] = NOOP
    /\ installed[n] <= nRegs

\* C9 witness: a name installed, registered again and installed a second
\* time.
C9_Witness ==
  \E n \in Names : installed[n] = 2 /\ installedSinceReg[n] = 1

\* C10: with two threads inside registerSchedule the steps interleave; when
\* the calls do not overlap a name is installed at most once and no call
\* throws or kills the process, and every installation follows an
\* invocation of the registered constructor.
C10_OnceWhenSerialized ==
  /\ \A n \in Names :
       /\ ~overlap => installed[n] <= 1
       /\ installed[n] <= ctorCalls[n]
  /\ ~overlap => gateOutcome \notin {"thrown", "crashed"}

\* C10 witness: both threads invoked the constructor of the same pending
\* entry and both installed its strategy.
C10_Witness ==
  \E n \in Names :
    /\ installed[n] = 2
    /\ ctorCalls[n] = 2
    /\ \A t \in Threads : tname[t] = n /\ tcalls[t] = 1 /\ sched[t] = Strategy

----------------------------------------------------------------------------
(* Claims about the registry and the translation rules *)

\* the operator a relay call of the rule carries
RuleOp(rule) == IF rule \in {"relu", "relu_"} THEN "nn.relu" ELSE "multiply"

\* C3: every symbol some registration named is supported; getOperator
\* dispatches to the rule of the latest registration naming the node's
\* kind; isSupported and getOperator leave the registry as it was.
C3_LastRegistrationWins ==
  /\ [](/\ \A s \in everRegistered : opMap[s] # Absent
        /\ lastCall = "isSupported" =>
             supported = (lastNode.kind \in everRegistered)
        /\ (lastCall = "getOperator" /\ lastNode.kind \in everRegistered) =>
             /\ result.status = "ok"
             /\ result.expr.kind = "call"
             /\ result.expr.op = RuleOp(lastRegistered[lastNode.kind])
             /\ result.expr.args = lastInputs)
  /\ [][lastCall' \in {"isSupported", "getOperator"} =>
          (opMap' = opMap /\ wrapperGraphs' = wrapperGraphs
             /\ torchOps' = torchOps)]_vars

\* C3 witness: getOperator ran for a symbol that was registered again with
\* a different rule.
C3_Witness ==
  /\ lastCall = "getOperator"
  /\ lastNode.kind \in overwritten
  /\ result.status = "ok"
  /\ result.expr.op = RuleOp(lastRegistered[lastNode.kind])

\* whether a scalar constant holds the number one in its own type
ScalarIsOne(c) ==
  CASE c.dtype = "int32"   -> SubSeq(c.data, 1, 4) = Int32Bytes(1)
    [] c.dtype = "float32" -> SubSeq(c.data, 1, 4) = FloatOne
    [] c.dtype = "bool"    -> c.data[1] = 1
    [] OTHER               -> c.data = <<1, 0, 0, 0, 0, 0, 0, 0>>

\* C4: the add rules return add(inputs[0], inputs[1]) when given three
\* inputs whose third is the scalar constant 1, and end in an internal
\* assertion failure with no expression when the third is any other scalar
\* constant or the input count is not 3.
C4_AddScaleOne ==
  (lastCall = "getOperator" /\ lastNode.kind \in {"aten::add", "aten::add_"})
  =>
    /\ (/\ Len(lastInputs) = 3
        /\ ConstOk(lastInputs[3])
        /\ ScalarIsOne(lastInputs[3])) =>
         result = Ok(Call("add", <<lastInputs[1], lastInputs[2]>>, NoAttrs),
                     FALSE)
    /\ (\/ Len(lastInputs) # 3
        \/ ConstOk(lastInputs[3]) /\ ~ScalarIsOne(lastInputs[3])) =>
         (result.status = "internal_assert" /\ result.expr = NullExpr)

\* C5: a pooling rule that succeeds emits strides equal to pool_size when
\* the stride array is empty and equal to the given stride array, element
\* by element, when it is not.
C5_PoolStrides ==
  (/\ lastCall = "getOperator"
   /\ lastNode.kind \in {"aten::avg_pool2d", "aten::max_pool2d"}
   /\ result.status = "ok")
  =>
    \E p \in PoolSizes, a \in PoolStrideArrays :
      /\ lastInputs[2] = IntTuple(p)
      /\ lastInputs[3] = IntTuple(a)
      /\ result.expr.attrs.pool_size = p
      /\ result.expr.attrs.strides = (IF a = <<>> THEN p ELSE a)

\* C5 witness: max pooling with an empty stride array came out with the
\* pool size as its strides.
C5_Witness ==
  /\ lastCall = "getOperator"
  /\ lastNode.kind = "aten::max_pool2d"
  /\ result.status = "ok"
  /\ lastInputs[3] = IntTuple(<<>>)
  /\ result.expr.attrs.strides = <<3, 2>>

RECURSIVE HasOp(_, _)
HasOp(e, op) ==
  CASE e.kind = "call" ->
         e.op = op \/ \E i \in 1..Len(e.args) : HasOp(e.args[i], op)
    [] e.kind = "tuple" -> \E i \in 1..Len(e.fields) : HasOp(e.fields[i], op)
    [] e.kind = "tuple_get_item" -> HasOp(e.tuple, op)
    [] OTHER -> FALSE

ConvOps == {"nn.conv2d", "nn.conv2d_transpose"}

\* C6: a convolution that succeeds is a bias_add call (axis 1) around the
\* convolution call exactly when inputs[2] is no constant, and the bare
\* convolution call otherwise; relu translated on the result of a
\* convolution with a constant bias is relu(conv2d(...)) with no bias_add
\* anywhere in the tree.
C6_ConvBias ==
  /\ (/\ lastCall = "getOperator"
      /\ lastNode.kind = "aten::_convolution"
      /\ result.status = "ok")
     =>
       IF isConstant(lastInputs[3])
       THEN /\ result.expr.kind = "call"
            /\ result.expr.op \in ConvOps
            /\ result.expr.args = <<lastInputs[1], lastInputs[2]>>
       ELSE /\ result.expr.kind = "call"
            /\ result.expr.op = "nn.bias_add"
            /\ result.expr.attrs.axis = 1
            /\ Len(result.expr.args) = 2
            /\ result.expr.args[2] = lastInputs[3]
            /\ result.expr.args[1].kind = "call"
            /\ result.expr.args[1].op \in ConvOps
            /\ result.expr.args[1].args = <<lastInputs[1], lastInputs[2]>>
  /\ (/\ lastCall = "getOperator"
      /\ lastNode.kind = "aten::relu"
      /\ chain = 1
      /\ prevNode.kind = "aten::_convolution"
      /\ isConstant(prevInputs[3])
      /\ ~ReadBool(prevInputs[7].data))
     =>
       /\ result.status = "ok"
       /\ result.expr.kind = "call"
       /\ result.expr.op = "nn.relu"
       /\ Len(result.expr.args) = 1
       /\ result.expr.args[1].kind = "call"
       /\ result.expr.args[1].op = "nn.conv2d"
       /\ ~HasOp(result.expr, "nn.bias_add")

\* C6 witness: [conv2d with the none constant as bias, then relu] was
\* translated.
C6_Witness ==
  /\ lastCall = "getOperator"
  /\ lastNode.kind = "aten::relu"
  /\ chain = 1
  /\ prevNode.kind = "aten::_convolution"
  /\ prevInputs[3] = NoneConst
  /\ result.status = "ok"
  /\ result.expr.args[1].op = "nn.conv2d"

\* the types of the scalars the rules read with relayToConstant<T>
RealTypes == {"bool", "int32", "float32"}
\* bytes a scalar of the type occupies
Width(dtype) == IF dtype = "bool" THEN 1 ELSE 4

\* C7 as stated: relayIsNone is true for the encoded none value, false for
\* every non-constant and non-scalar constant, and false for every real
\* scalar of every type the rules read.
C7_NoFalsePositive ==
  lastCall = "relayIsNone" =>
    /\ noneArg = NoneConst => noneResult
    /\ ~isConstant(noneArg) => ~noneResult
    /\ (isConstant(noneArg) /\ ~noneArg.scalar) => ~noneResult
    /\ (isConstant(noneArg) /\ noneArg.scalar
          /\ noneArg.dtype \in RealTypes) => ~noneResult

\* C7 amended: as stated, but for a real scalar only when its stored bytes
\* differ from the leading bytes of the sentinel (every bool, every int but
\* -893587402, every float but -6191131.0); a real scalar is reported as
\* none only when the eight bytes at its data pointer, its own and those
\* behind it, equal the sentinel.
C7_FalseUnlessBytesMatch ==
  lastCall = "relayIsNone" =>
    /\ noneArg = NoneConst => noneResult
    /\ ~isConstant(noneArg) => ~noneResult
    /\ (isConstant(noneArg) /\ ~noneArg.scalar) => ~noneResult
    /\ (isConstant(noneArg) /\ noneArg.scalar
          /\ noneArg.dtype \in RealTypes) =>
         /\ SubSeq(noneArg.data, 1, Width(noneArg.dtype))
              # SubSeq(getNoneSentinel, 1, Width(noneArg.dtype))
            => ~noneResult
         /\ noneResult => noneArg.data = getNoneSentinel

\* C7 witness: a float 1.0 lying in memory that still holds the upper half
\* of the sentinel was probed and is not none.
C7_Witness ==
  /\ lastCall = "relayIsNone"
  /\ noneArg = FloatConst(FloatOne, SentinelTail4)
  /\ ~noneResult

TrainingIsTrue ==
  /\ lastCall = "getOperator"
  /\ lastNode.kind = "aten::batch_norm"
  /\ Len(lastInputs) >= 6
  /\ ConstOk(lastInputs[6])
  /\ ReadBool(lastInputs[6].data)

\* C8 as stated: with the training flag a constant true, batch_norm yields
\* no expression and fails with an internal assertion, not with the
\* reported error the threshold and linear rules use.
C8_TrainingIsFatal ==
  TrainingIsTrue =>
    (result.expr = NullExpr /\ result.status = "internal_assert")

\* C8 amended: with the training flag a constant true, batch_norm yields no
\* expression and fails with a reported error (TORCH_CHECK), the class the
\* threshold and linear rules reject with.
C8_TrainingIsReported ==
  /\ TrainingIsTrue =>
       (result.expr = NullExpr /\ result.status = "check_failed")
  /\ (/\ lastCall = "getOperator"
      /\ lastNode.kind = "aten::threshold_"
      /\ lastInputs[2] = FloatConst(FloatHalf, ZeroTail4)) =>
       result.status = "check_failed"
  /\ (/\ lastCall = "getOperator"
      /\ lastNode.kind = "aten::linear"
      /\ lastNode.inputDim = 3) =>
       result.status = "check_failed"

\* C8 witness: batch_norm was translated with nine inputs and the training
\* flag true.
C8_Witness ==
  /\ TrainingIsTrue
  /\ Len(lastInputs) = 9
  /\ lastInputs[6] = True
  /\ result.status = "check_failed"

====
